---- MODULE Spec2Model ----
(***************************************************************************)
(* Toolpath generation and synchronized execution of the DIW printer.      *)
(*                                                                         *)
(* A toolpath is a list of text lines.  A line is modelled as a sequence   *)
(* of tokens, so that the substring tests ("CAPTURE" in line, ";" in line) *)
(* and the comma split the engines perform are computed, not assumed.      *)
(* Numbers are fixed point: lengths in 1/100 mm, extrusion rates in        *)
(* 1/1000.                                                                 *)
(***************************************************************************)
EXTENDS Integers, Sequences, FiniteSets, TLC

VARIABLES
    engine,             \* which program replays the toolpath: "main" (main.py) or "gui" (printer_gui.py)
    toolpath,           \* the list of lines being replayed
    runs,               \* per run (thread): position in the loop and the send_gcode calls made
    printer_connected,  \* PrinterGUI.printer_connected
    controller,         \* the KlipperController object: "none", or "down"/"up" by its connected flag
    ctrlMode,           \* positioning mode of the motion controller: "abs" or "rel"
    moving,             \* the controller still executes queued motion
    stopRuns,           \* runs that were executing when an emergency stop was issued
    prnt,               \* the shared printer profile object handed to the generators
    genOut,             \* toolpath returned by the last generator call
    genName,            \* name of the last generator called
    genCalls,           \* number of generator calls made
    prnt0,              \* value of the profile before the first generator call
    saved,              \* the toolpath file last written: who wrote it, the list given, the text
    pctl,               \* the PressureController object, its clock and its caller's rate
    kctl,               \* a KlipperController object on its own: connect and wait_for_idle
    tl                  \* the timelapse control of PrinterGUI: its flag and its worker threads

vars == <<engine, toolpath, runs, printer_connected, controller, ctrlMode,
          moving, stopRuns, prnt, genOut, genName, genCalls, prnt0, saved,
          pctl, kctl, tl>>

engineVars == <<engine, toolpath, runs, printer_connected, controller,
                ctrlMode, moving, stopRuns>>
genVars == <<prnt, genOut, genName, genCalls, prnt0, saved>>
unitVars == <<pctl, kctl, tl>>
offlineVars == <<genVars, unitVars>>

----------------------------------------------------------------------------
(* Bounds of the model *)

MaxLen == 2
MaxRuns == 2
MaxGenCalls == 2
MaxRows == 2
MaxCols == 2
MaxLayers == 2
MaxIterations == 2
MaxTicks == 6
MaxTimeout == 6
MaxWorkers == 2
MaxFrames == 2

----------------------------------------------------------------------------
(* Tokens and lines *)

W(s) == [s |-> s, n |-> 0]
N(n) == [s |-> "#", n |-> n]
SP == W(" ")
COMMA == W(",")
SEMI == W(";")

IsNum(t) == t.s = "#"

\* f"{v}" of a number
Fmt(n) == <<N(n)>>

\* substring test `word in line`
Contains(line, word) == \E k \in 1..Len(line) : line[k].s = word

RECURSIVE SplitFrom(_, _, _)
SplitFrom(line, k, cur) ==
    IF k > Len(line) THEN <<cur>>
    ELSE IF line[k] = COMMA THEN <<cur>> \o SplitFrom(line, k + 1, <<>>)
    ELSE SplitFrom(line, k + 1, Append(cur, line[k]))

\* line.split(",")
Split(line) == SplitFrom(line, 1, <<>>)

RECURSIVE LStrip(_)
LStrip(f) == IF f # <<>> /\ Head(f) = SP THEN LStrip(Tail(f)) ELSE f

RECURSIVE RStrip(_)
RStrip(f) ==
    IF f # <<>> /\ f[Len(f)] = SP THEN RStrip(SubSeq(f, 1, Len(f) - 1)) ELSE f

\* part.strip()
Strip(f) == RStrip(LStrip(f))

\* int(text) / float(text) succeed on a number surrounded by blanks only
Parses(f) == Len(Strip(f)) = 1 /\ IsNum(Strip(f)[1])
NumOf(f) == Strip(f)[1].n

----------------------------------------------------------------------------
(* Printer profiles (configs.py) *)

MXeneProfile_pet_25G ==
    [extrusion |-> 80, retraction |-> 40, feed_rate |-> 1200,
     movement_speed |-> 5000, print_height |-> 110, bed_height |-> 100,
     z_hop |-> 500, line_gap |-> 60]

MXeneProfile2_20 ==
    [extrusion |-> 8, retraction |-> 40, feed_rate |-> 1700,
     movement_speed |-> 5000, print_height |-> 50, bed_height |-> 50,
     z_hop |-> 500, line_gap |-> 40]

stdCap ==
    [stem_len |-> 1000, arm_len |-> 1000, arm_count |-> 4, gap |-> 300,
     arm_gap |-> 400, contact_patch_width |-> 300]

Abs(v) == IF v < 0 THEN -v ELSE v

----------------------------------------------------------------------------
(* G-code commands (g_code_comands.py).  Each returns a list of lines.     *)
(* x_move, y_move, z_move are the formatted arguments (token sequences):   *)
(* the f-string accepts a number or, as in main.py, the text of a field.   *)

movePrintHead(x_move, y_move, z_move, p) ==
    << <<W("G1"), W("X")>> \o x_move \o <<W("Y")>> \o y_move \o <<W("Z")>>
       \o z_move \o <<W("F"), N(p.movement_speed), SP>> >>

retract(p) == << <<W("G1"), W("E"), N(p.retraction)>> >>

printX(x_move, p) ==
    << <<W("G1"), W("X"), N(x_move), W("E"), N(-(p.extrusion * Abs(x_move))),
         W("F"), N(p.feed_rate)>> >>

printY(y_move, p) ==
    << <<W("G1"), W("Y"), N(y_move), W("E"), N(-(p.extrusion * Abs(y_move))),
         W("F"), N(p.feed_rate)>> >>

moveX(x_move, p) == << <<W("G1"), W("X"), N(x_move), W("F"), N(p.movement_speed)>> >>

moveY(y_move, p) == << <<W("G1"), W("Y"), N(y_move), W("F"), N(p.movement_speed)>> >>

moveZ(z_move, p) == << <<W("G1"), W("Z"), N(z_move), W("F"), N(p.movement_speed)>> >>

absolute == << <<W("G90"), SEMI, W(" Absolute Cordinates")>> >>

relative == << <<W("G91"), SEMI, W(" Relative Cordinates")>> >>

home == << <<W("G28")>> >>

Blank == <<>>

Comment(text) == <<SEMI, W(text)>>

pause(delay) ==
    <<Blank, Comment("Pausing for {delay} seconds"),
      <<W("PASUE"), COMMA, SP, N(delay)>>, Blank>>

send_message(message) == <<Blank, <<W("PRINT_MESSAGE")>>, <<W(message)>>, Blank>>

waitForInput == <<Blank, <<W("WAIT")>>, Blank>>

\* the still-image branch (time_lapse None or False); file_name is the
\* formatted name
capture_print(camera, x, y, z, file_name) ==
    <<Blank, Comment("Capturing Immage"),
      <<W("CAPTURE"), COMMA, SP, SP, N(camera), COMMA, SP, N(x), COMMA, SP,
        N(y), COMMA, SP, N(z), COMMA, SP>> \o file_name \o <<COMMA, SP, W("False")>>,
      Blank>>

----------------------------------------------------------------------------
(* Pattern generators (g_code_comands.py, toolpath.py).  A generator       *)
(* returns [out |-> its list of lines, prnt |-> the profile object as the  *)
(* call leaves it]: the profile is passed by reference.                    *)

RECURSIVE Flatten(_)
Flatten(ss) ==
    IF ss = <<>> THEN <<>>
    ELSE IF Len(ss) = 1 THEN ss[1]
    ELSE LET h == Len(ss) \div 2
         IN Flatten(SubSeq(ss, 1, h)) \o Flatten(SubSeq(ss, h + 1, Len(ss)))

\* the lines a `for k in range(n)` loop appends, Body[k] per iteration
ForRange(n, Body) == Flatten([k \in 1..n |-> Body[k - 1]])

CommentN(text, n) == <<SEMI, W(text), N(n)>>

\* Printer.set_print_height(print_height) with bed_height left at None
set_print_height(p, print_height) == [p EXCEPT !.print_height = print_height]

printPrimeLine(xStart, yStart, len, p) ==
    <<Blank, Blank, Comment("Printing Priming Line "),
      CommentN("\txStart : ", xStart), CommentN("\tyStart : ", yStart)>>
    \o absolute
    \o movePrintHead(Fmt(xStart), Fmt(yStart), Fmt(1000), p)
    \o moveZ(p.bed_height, p)
    \o relative
    \o printY(len, p)

\* the horizontal pass that closes a lattice (both parities of rows)
LatticeClosing(rows, cols, spacing, p) ==
    IF rows % 2 = 0
    THEN printY(spacing * cols, p)
         \o ForRange(cols, [i \in 0..(cols - 1) |->
               IF i % 2 = 0
               THEN printX(-(spacing * rows), p) \o printY(-spacing, p)
               ELSE printX(spacing * rows, p) \o printY(-spacing, p)])
         \o printX(-500 - spacing - spacing * cols, p)
    ELSE printY(-(spacing * cols), p)
         \o ForRange(cols, [i \in 0..(cols - 1) |->
               IF i % 2 = 0
               THEN printX(-(spacing * rows), p) \o printY(spacing, p)
               ELSE printX(spacing * rows, p) \o printY(spacing, p)])
         \o printX(500 + cols * spacing, p)

\* the vertical strokes of a lattice
LatticeVertical(rows, cols, spacing, p) ==
    ForRange(rows, [i \in 0..(rows - 1) |->
        (IF i % 2 = 0 THEN printY(spacing * cols, p)
         ELSE printY(-(spacing * cols), p))
        \o printX(spacing, p)])

lattice(start_x, start_y, rows, cols, spacing, p) ==
    [out |->
        <<Blank, Blank, Comment("Printing Lattice/Grid"),
          CommentN("\tstart_x : ", start_x), CommentN("\tstart_y : ", start_y),
          CommentN("\thorizontal_lines : ", cols),
          CommentN("\tvertical_lines : ", rows),
          CommentN("\tspacing : ", spacing)>>
        \o absolute
        \o movePrintHead(Fmt(start_x), Fmt(start_y - spacing), Fmt(500), p)
        \o moveZ(p.print_height, p)
        \o relative
        \o printY(500, p)
        \o LatticeVertical(rows, cols, spacing, p)
        \o LatticeClosing(rows, cols, spacing, p),
     prnt |-> p]

\* the default list of massFlowTest, in 1/10
DefaultFeedrates == <<1, 2, 5, 10, 20, 50, 100, 200, 500, 1000, 2000, 5000>>

\* Feedrates is None when isNone, else the list rates
massFlowTest(p, isNone, rates) ==
    LET Feedrates == IF isNone THEN DefaultFeedrates ELSE rates IN
    [out |-> ForRange(Len(Feedrates), [k \in 0..(Len(Feedrates) - 1) |->
                << <<W("G1"), W("E"), N(35), W("F"), N(Feedrates[k + 1])>> >>
                \o waitForInput]),
     prnt |-> p]

\* toolpath.py generate_toolpath(prnt, cap)
toolpath_generate_toolpath(p, cap) ==
    [out |->
        << <<W("G28"), SP, SEMI, W(" Home all axes")>>,
           <<W("G1"), W("Z"), N(p.bed_height), W("F"), N(p.movement_speed)>> >>
        \o ForRange(5, [i \in 0..(5 - 1) |->
              << <<W("G1"), W("X"), N(1000 + i * 500), W("Y"), N(1000),
                   W("Z"), N(p.print_height), W("F"), N(p.feed_rate)>>,
                 <<W("CAPTURE"), COMMA, N(1), COMMA, N(1000 + i * 500), COMMA,
                   N(1000), COMMA, N(p.print_height), COMMA, W("step_"), N(i),
                   COMMA, W("False")>> >>])
        \o << <<W("G1"), W("Z"), N(1000), W("F"), N(3000), SP, SEMI, W(" Move Z up")>>,
              <<W("M104"), W("S"), N(0), SP, SEMI, W(" Turn off extruder")>>,
              <<W("M140"), W("S"), N(0), SP, SEMI, W(" Turn off bed")>>,
              <<W("M84"), SP, SEMI, W(" Disable motors")>> >>,
     prnt |-> p]

printCap(cap, p, xStart, yStart) ==
    LET downLeft == cap.stem_len + cap.arm_count * p.line_gap
                    + (cap.arm_count - 1) * cap.arm_gap
        downRight == cap.stem_len + cap.arm_count * p.line_gap
                     + (cap.arm_count - 1) * cap.arm_gap - cap.arm_gap \div 2
    IN
    [out |->
        <<Blank, Blank, Comment("Printing Capasitor (double Line no lift)"),
          CommentN("\txStart : ", xStart), CommentN("\tyStart : ", yStart)>>
        \o absolute
        \o movePrintHead(Fmt(xStart), Fmt(yStart), Fmt(1000), p)
        \o moveZ(p.print_height, p)
        \o relative
        \o printY(cap.stem_len - cap.arm_gap, p)
        \o ForRange(cap.arm_count, [arm \in 0..(cap.arm_count - 1) |->
              printY(cap.arm_gap - p.line_gap \div 2, p) \o printX(cap.arm_len, p)
              \o printY(p.line_gap, p) \o printX(-cap.arm_len, p)])
        \o printX(-p.line_gap, p)
        \o printY(-downLeft, p)
        \* moveZ(prnt.z_hop,prnt): the returned list is dropped
        \o absolute
        \o movePrintHead(Fmt(xStart + cap.arm_len + cap.gap), Fmt(yStart),
                         Fmt(1000), p)
        \o moveZ(p.print_height, p)
        \o relative
        \o printY(cap.stem_len - (3 * cap.arm_gap) \div 2 - p.line_gap, p)
        \o ForRange(cap.arm_count, [arm \in 0..(cap.arm_count - 1) |->
              printY(cap.arm_gap, p) \o printX(-cap.arm_len, p)
              \o printY(p.line_gap, p) \o printX(cap.arm_len, p)])
        \o printY(-downRight, p)
        \o moveZ(1000, p),
     prnt |-> p]

\* the arms of one comb of the single-line capacitors: dir is 1 for the
\* left comb, -1 for the right; withRetract where the code retracts
SingleArms(cap, p, dir, withRetract) ==
    ForRange(cap.arm_count, [arm \in 0..(cap.arm_count - 1) |->
        printX(dir * cap.arm_len, p)
        \o (IF withRetract THEN retract(p) ELSE <<>>)
        \o moveZ(200, p)
        \o movePrintHead(Fmt(-(dir * cap.arm_len)), Fmt(-cap.arm_gap), Fmt(-200), p)])

\* cap.stem_len + (cap.arm_count-1)*cap.arm_gap
StemLeft(cap) == cap.stem_len + (cap.arm_count - 1) * cap.arm_gap

\* cap.stem_len + (cap.arm_count-1/2)*cap.arm_gap
StemRight(cap) == cap.stem_len + ((2 * cap.arm_count - 1) * cap.arm_gap) \div 2

singleLineCap(cap, p, layers, layer_height, delay, xStart, yStart) ==
    [out |->
        <<Blank, Blank, Comment("Printing Capasitor (single Line)"),
          CommentN("\txStart : ", xStart), CommentN("\tyStart : ", yStart)>>
        \o absolute
        \o movePrintHead(Fmt(xStart), Fmt(yStart), Fmt(1000), p)
        \o moveZ(p.print_height, p)
        \o relative
        \o printY(StemLeft(cap), p)
        \o SingleArms(cap, p, 1, FALSE)
        \o moveZ(1000, p)
        \o absolute
        \o movePrintHead(Fmt(xStart + cap.arm_len + cap.arm_gap), Fmt(yStart),
                         Fmt(p.print_height), p)
        \o relative
        \o printY(StemRight(cap), p)
        \o SingleArms(cap, p, -1, FALSE)
        \o moveZ(1000, p)
        \o ForRange(layers - 1, [l \in 0..(layers - 2) |->
              LET layer == l + 1 IN
              pause(delay)
              \o absolute
              \o movePrintHead(Fmt(xStart), Fmt(yStart + StemLeft(cap)), Fmt(1000), p)
              \o moveZ(p.print_height + layer_height * (layer + 1), p)
              \o relative
              \o SingleArms(cap, p, 1, FALSE)
              \o absolute
              \o movePrintHead(Fmt(xStart + cap.arm_len + cap.arm_gap),
                               Fmt(yStart + StemRight(cap)), Fmt(1000), p)
              \o moveZ(p.print_height + layer_height * (layer + 1), p)
              \o relative
              \o SingleArms(cap, p, -1, FALSE)]),
     prnt |-> p]

\* the header of singleLineCap_left and singleLineCap_right
SingleHeader(title, p, layers, layer_height, delay, xStart, yStart) ==
    <<Blank, Blank, Comment(title),
      CommentN("\txStart : ", xStart), CommentN("\tyStart : ", yStart),
      CommentN("\tLayers: ", layers), CommentN("\tLayer Height: ", layer_height),
      CommentN("\tDelay: ", delay), <<SEMI, W("\tPrinter: "), W("<Printer>")>>,
      CommentN("\tExtrusion Rate: ", p.extrusion)>>

singleLineCap_left(cap, p, layers, layer_height, delay, xStart, yStart) ==
    [out |->
        SingleHeader("Printing Capasitor (single Line - left)", p, layers,
                     layer_height, delay, xStart, yStart)
        \o absolute
        \o movePrintHead(Fmt(xStart), Fmt(yStart), Fmt(1000), p)
        \o moveZ(p.print_height, p)
        \o relative
        \o printY(StemLeft(cap), p)
        \o SingleArms(cap, p, 1, TRUE)
        \o retract(p)
        \o moveZ(1000, p)
        \o (IF layers = 1 THEN <<>>
            ELSE ForRange(layers - 1, [l \in 0..(layers - 2) |->
                    LET layer == l + 1 IN
                    pause(delay)
                    \o absolute
                    \o movePrintHead(Fmt(xStart), Fmt(yStart + StemLeft(cap)),
                                     Fmt(1000), p)
                    \o moveZ(p.print_height + layer_height * (layer + 1), p)
                    \o relative
                    \o SingleArms(cap, p, 1, TRUE)])
                 \o moveZ(1000, p)),
     prnt |-> p]

singleLineCap_right(cap, p, layers, layer_height, delay, xStart, yStart) ==
    [out |->
        SingleHeader("Printing Capasitor (single Line - right)", p, layers,
                     layer_height, delay, xStart, yStart)
        \o absolute
        \o movePrintHead(Fmt(xStart + cap.arm_len + cap.arm_gap), Fmt(yStart),
                         Fmt(1000), p)
        \o moveZ(p.print_height, p)
        \o relative
        \o printY(StemRight(cap), p)
        \o SingleArms(cap, p, -1, TRUE)
        \o moveZ(1000, p)
        \o ForRange(layers - 1, [l \in 0..(layers - 2) |->
              LET layer == l + 1 IN
              pause(delay)
              \o absolute
              \o movePrintHead(Fmt(xStart + cap.arm_len + cap.arm_gap),
                               Fmt(yStart + StemRight(cap)), Fmt(1000), p)
              \o moveZ(p.print_height + layer_height * (layer + 1), p)
              \o relative
              \o SingleArms(cap, p, -1, TRUE)]),
     prnt |-> p]

\* the diamond stroke printed before each comb
ContactPatch(cap, p) ==
    printX(-(cap.contact_patch_width \div 2), p)
    \o printY(cap.contact_patch_width, p)
    \o printX(cap.contact_patch_width, p)
    \o printY(-cap.contact_patch_width, p)
    \o printX(-(cap.contact_patch_width \div 2), p)

\* prntPre = prnt binds a second name to the same object, so the bump of
\* prntPre.extrusion is a bump of prnt.extrusion
printCap_contact_patch(cap, p0, xStart, yStart) ==
    LET p == [p0 EXCEPT !.extrusion = p0.extrusion + 5]
        prntPre == p
        downLeft == cap.stem_len + cap.arm_count * p.line_gap
                    + (cap.arm_count - 1) * cap.arm_gap
        downRight == cap.stem_len + cap.arm_count * p.line_gap
                     + (cap.arm_count - 1) * cap.arm_gap - cap.arm_gap \div 2
    IN
    [out |->
        <<Blank, Blank, Comment("Printing Capasitor (double Line no lift)"),
          CommentN("\txStart : ", xStart), CommentN("\tyStart : ", yStart)>>
        \o absolute
        \o movePrintHead(Fmt(xStart), Fmt(yStart - 600), Fmt(1000), p)
        \o moveZ(p.print_height, p)
        \o relative
        \o printY(200, prntPre)
        \o absolute
        \o moveZ(p.print_height + 200, p)
        \o movePrintHead(Fmt(xStart), Fmt(yStart), Fmt(p.print_height), p)
        \o relative
        \o ContactPatch(cap, p)
        \o printY(cap.stem_len - cap.arm_gap, p)
        \o ForRange(cap.arm_count, [arm \in 0..(cap.arm_count - 1) |->
              printY(cap.arm_gap, p) \o printX(cap.arm_len, p)
              \o printY(p.line_gap, p) \o printX(-cap.arm_len, p)])
        \o printX(-p.line_gap, p)
        \o printY(-downLeft, p)
        \* movePrintHead(0,-3, 3, prnt): the returned list is dropped
        \o absolute
        \o movePrintHead(Fmt(xStart + cap.arm_len + cap.gap), Fmt(yStart - 600),
                         Fmt(1000), p)
        \o moveZ(p.print_height, p)
        \o relative
        \o printY(200, prntPre)
        \o absolute
        \o moveZ(p.print_height + 200, p)
        \o movePrintHead(Fmt(xStart + cap.arm_len + cap.gap), Fmt(yStart),
                         Fmt(p.print_height), p)
        \o relative
        \o ContactPatch(cap, p)
        \o printY(cap.stem_len - (3 * cap.arm_gap) \div 2 - p.line_gap, p)
        \o ForRange(cap.arm_count, [arm \in 0..(cap.arm_count - 1) |->
              printY(cap.arm_gap, p) \o printX(-cap.arm_len, p)
              \o printY(p.line_gap, p) \o printX(cap.arm_len, p)])
        \o printY(-downRight, p)
        \o movePrintHead(Fmt(0), Fmt(-300), Fmt(300), p),
     prnt |-> p]

\* one comb of printLayers; dir is 1 for the left comb, -1 for the right
LayerArms(cap, p, prntPre, dir) ==
    ForRange(cap.arm_count, [i \in 0..(cap.arm_count - 1) |->
        relative
        \o (IF dir = 1
            THEN printX(250, prntPre) \o moveZ(250, p)
                 \o movePrintHead(Fmt(250), Fmt(0), Fmt(-250), p)
            ELSE printX(-200, prntPre) \o moveZ(200, p)
                 \o movePrintHead(Fmt(-300), Fmt(0), Fmt(-200), p))
        \o relative
        \o printX(dir * cap.arm_len, p)
        \o printY(p.line_gap, p)
        \o printX(-(dir * cap.arm_len), p)
        \o movePrintHead(Fmt(-(dir * 500)), Fmt(0), Fmt(500), p)
        \o (IF i < cap.arm_count - 1
            THEN moveY(cap.arm_gap, p) \o absolute \o moveZ(p.print_height, p)
            ELSE moveZ(500, p))])

\* prntPre and prnt name one object: it is bumped by 0.005 and then by 0.001
printLayers(cap, p0, xStart0, yStart0, xOffset, yOffset) ==
    LET p == [p0 EXCEPT !.extrusion = p0.extrusion + 5 + 1]
        prntPre == p
        xStart == xStart0 + xOffset
        yStart == yStart0 + yOffset
    IN
    [out |->
        <<Comment(" Print Layers"), Comment(""), Comment(""), Comment("")>>
        \o absolute
        \o movePrintHead(Fmt(xStart - 500), Fmt(yStart + cap.stem_len), Fmt(500), p)
        \o moveZ(p.print_height, p)
        \o LayerArms(cap, p, prntPre, 1)
        \o absolute
        \o movePrintHead(Fmt(xStart + cap.arm_len + cap.gap + 500),
                         Fmt(yStart + cap.stem_len - cap.arm_gap \div 2 - p.line_gap),
                         Fmt(p.print_height), p)
        \o LayerArms(cap, p, prntPre, -1),
     prnt |-> p]

\* height after m multiplications by shrink_rate (a percentage), kept at
\* the fixed-point resolution
RECURSIVE Shrunk(_, _, _)
Shrunk(height, shrink_rate, m) ==
    IF m = 0 THEN height
    ELSE Shrunk((height * shrink_rate) \div 100, shrink_rate, m - 1)

\* the strokes of one layer of layered_FFT; height keeps shrinking from
\* layer to layer
FFTLayer(p, height, width, iterations, shrink_rate, layer) ==
    ForRange(iterations, [i \in 0..(iterations - 1) |->
        LET m == 2 * (layer * iterations + i) IN
        printY(Shrunk(height, shrink_rate, m), p)
        \o printX(width, p)
        \o printY(-Shrunk(height, shrink_rate, m + 1), p)
        \o printX(width, p)])

layered_FFT(p, start_x, start_y, height, width, iterations, shrink_rate, layer_height, layers) ==
    LET initilZ == p.print_height IN
    [out |->
        <<Blank, Blank, Comment("Printing Layered FFT")>>
        \o absolute
        \o moveZ(500, p)
        \o movePrintHead(Fmt(start_x), Fmt(start_y - 1000), Fmt(500 + initilZ), p)
        \o relative
        \o movePrintHead(Fmt(0), Fmt(500), Fmt(-500), p)
        \o printY(500, p)
        \o ForRange(layers, [layer \in 0..(layers - 1) |->
              FFTLayer(p, height, width, iterations, shrink_rate, layer)
              \o capture_print(1, 6500, 1000, (layer + 1) * layer_height + 6000,
                               <<W("layered_FFT_layer_"), N(layer)>>)
              \o (IF layer # layers - 1
                  THEN send_message("Continue to next layer") \o waitForInput
                  ELSE <<>>)])
        \o moveZ(6000, p)
        \o movePrintHead(Fmt(6500), Fmt(1000), Fmt(6000), p),
     prnt |-> IF layers > 0
              THEN set_print_height(p, initilZ + layers * layer_height)
              ELSE p]

contracting_square_wave(start_x, start_y, height, width, iterations, shrink_rate, p) ==
    <<Blank, Blank, Comment("Printing Contracting Square Wave"),
      CommentN("\tstart_x : ", start_x), CommentN("\tstart_y : ", start_y),
      CommentN("\theight : ", height), CommentN("\twidth : ", width),
      CommentN("\titerations : ", iterations),
      CommentN("\tshrink_rate : ", shrink_rate)>>
    \o absolute
    \o movePrintHead(Fmt(start_x), Fmt(start_y - 500), Fmt(1000), p)
    \o moveZ(p.print_height, p)
    \o relative
    \o printY(500, p)
    \o ForRange(iterations, [i \in 0..(iterations - 1) |->
          printY(height, p)
          \o printX(Shrunk(width, shrink_rate, 2 * i), p)
          \o printY(-height, p)
          \o printX(Shrunk(width, shrink_rate, 2 * i + 1), p)])
    \o moveZ(1000, p)

straight_line(p, start_x, start_y, length, qty, spacing) ==
    absolute
    \o moveZ(1500, p)
    \o movePrintHead(Fmt(start_x), Fmt(start_y - 500), Fmt(p.print_height + 500), p)
    \o ForRange(qty, [line \in 0..(qty - 1) |->
          relative
          \o movePrintHead(Fmt(0), Fmt(500), Fmt(-500), p)
          \o printY(length, p)
          \o movePrintHead(Fmt(0), Fmt(500), Fmt(500), p)
          \o moveZ(1000, p)
          \o (IF line # qty - 1
              THEN movePrintHead(Fmt(spacing), Fmt(-length), Fmt(0), p)
                   \o absolute
                   \o moveZ(p.print_height + 500, p)
              ELSE <<>>)])
    \o absolute
    \o moveZ(6000, p)
    \o movePrintHead(Fmt(7000), Fmt(1500), Fmt(6000), p)

\* contracting_square_wave of g_code/printibility.py
printibility_contracting_square_wave(start_x, start_y, height, width, iterations, shrink_rate, p) ==
    <<Blank, Blank, Comment("Printing Contracting Square Wave"),
      CommentN("\tstart_x : ", start_x), CommentN("\tstart_y : ", start_y),
      CommentN("\theight : ", height), CommentN("\twidth : ", width),
      CommentN("\titerations : ", iterations),
      CommentN("\tshrink_rate : ", shrink_rate)>>
    \o absolute
    \o moveZ(500, p)
    \o movePrintHead(Fmt(start_x), Fmt(start_y - 500), Fmt(500), p)
    \o relative
    \o movePrintHead(Fmt(0), Fmt(500), Fmt(-500), p)
    \o ForRange(iterations, [i \in 0..(iterations - 1) |->
          printY(height, p)
          \o printX(Shrunk(width, shrink_rate, 2 * i), p)
          \o printY(-height, p)
          \o printX(Shrunk(width, shrink_rate, 2 * i + 1), p)])
    \o moveZ(1000, p)

\* layered_FFT of g_code/printibility.py: every layer starts by setting
\* prnt.print_height back to currentLayerHeight, which is never advanced
printibility_layered_FFT(p, layer_height, layers, start_x, start_y, height, width, iterations, shrink_rate) ==
    LET currentLayerHeight == p.print_height
        pl == [p EXCEPT !.print_height = currentLayerHeight]
    IN
    [out |->
        <<Blank, Blank, Comment("Printing Layered FFT")>>
        \o ForRange(layers, [layer \in 0..(layers - 1) |->
              printPrimeLine(2000, 1000, 3000, pl)
              \o printibility_contracting_square_wave(start_x, start_y, height,
                     width, iterations, shrink_rate, pl)
              \o capture_print(1, 9000, 1000, 6000, <<W("FFT_"), N(layer + 1)>>)]),
     prnt |-> IF layers > 0
              THEN [p EXCEPT !.print_height = currentLayerHeight + layer_height]
              ELSE p]

\* what main.generate_toolpath appends before it rebinds its list
main_preamble(p) ==
    home
    \o printPrimeLine(500, 1000, 1000, p)
    \o printPrimeLine(1000, 1000, 1000, p)
    \o printPrimeLine(1500, 1000, 1000, p)

\* main.generate_toolpath: after the preamble the name toolpath is bound to
\* a new empty list, and the patterns are appended to that one.  The calls
\* of capture_print (keyword prnt) and straight_line (profile last) bind
\* only if the helper module main.py imports accepts them; with the
\* signatures of g_code_comands.py the first of them raises and no list is
\* returned.
main_generate_toolpath(p, binds) ==
    LET staged == main_preamble(p)
        toolpath1 == <<>>
        patterns ==
            toolpath1
            \o lattice(1000, 4000, 5, 5, 300, p).out
            \o capture_print(1, 1750, 0, 6000, <<W("None")>>)
            \o contracting_square_wave(4000, 4000, 4000, 500, 5, 95, p)
            \o straight_line(p, 4000, 9000, 4000, 5, 500)
    IN [out |-> IF binds THEN patterns ELSE <<>>, prnt |-> p]

----------------------------------------------------------------------------
(* Saving a toolpath (main.py, printer_gui.py, toolpath.py).  The file is  *)
(* its text: the tokens written, "\n" included.                            *)

NL == W("\n")

NoFile == [by |-> "none", tp |-> <<>>, text |-> <<>>]

\* the three header writes; the last one ends in "\n\n"
SaveHeader ==
    <<SEMI, W(" Toolpath generated by MXene printer"), NL>>
    \o <<SEMI, W(" Generated on: {timestamp}"), NL>>
    \o <<SEMI, W(" Format: G1 X<x> Y<y> Z<z> E<extrusion>"), NL, NL>>

\* `x, y, z, e = point` with point a line of text: a str of any length but
\* four does not unpack, and the characters of a str of length four are not
\* accepted by the format code .3f; either way ValueError is raised at the
\* first element, caught by `except Exception` after the with block has
\* closed the file
main_save_toolpath(tp) ==
    SaveHeader
    \o (IF tp = <<>> THEN <<NL, SEMI, W(" End of toolpath"), NL>> ELSE <<>>)

\* PrinterGUI._save_toolpath: the same body over self.toolpath
gui_save_toolpath(tp) ==
    SaveHeader
    \o (IF tp = <<>> THEN <<NL, SEMI, W(" End of toolpath"), NL>> ELSE <<>>)

\* toolpath.py: f.write(cmd + "\n") for each cmd
toolpath_save_toolpath(tp) == ForRange(Len(tp), [k \in 0..(Len(tp) - 1) |-> tp[k + 1] \o <<NL>>])

----------------------------------------------------------------------------
(* Lines a replayed toolpath is made of *)

\* "CAPTURE,1,10,20,30": the five-field form _handle_capture_command documents
CaptureLine5 ==
    <<W("CAPTURE"), COMMA, N(1), COMMA, N(10), COMMA, N(20), COMMA, N(30)>>

\* "CAPTURE,1,10": a directive with missing fields
CaptureShort == <<W("CAPTURE"), COMMA, N(1), COMMA, N(10)>>

InstrLines ==
    { absolute[1], relative[1], home[1],
      printY(500, MXeneProfile_pet_25G)[1],
      capture_print(1, 65, 10, 60, <<W("layer_"), N(0)>>)[3],
      CaptureLine5, CaptureShort }

Toolpaths == UNION { [1..n -> InstrLines] : n \in 1..MaxLen }

----------------------------------------------------------------------------
(* Pressure controller (pressure_controller.py).  Pressures are in mN,     *)
(* times in ms, extrusion rates in 1/1000.                                 *)

min_extrusion == 1
max_extrusion == 200
sample_time == 10
history_length == 5

\* the target of the example loop, 5.0 N
target_pressure == 5000

\* the rate the example loop starts from, 0.05
initial_extrusion == 50

\* load-cell readings: none, on target, and far beyond any target
Pressures == {0, 5000, 1000000}

\* time that passes between two calls: half a sample time or a whole one
Elapsed == {5, 10}

\* getLoad()[0]: 0.0 stands for a cell that is not initialized, not
\* calibrated or whose read failed
getLoad(available, newtons) == IF available THEN newtons ELSE 0

RECURSIVE Sum(_)
Sum(h) == IF h = <<>> THEN 0 ELSE Head(h) + Sum(Tail(h))

\* np.mean(pressure_history), at the fixed-point resolution
Mean(h) == Sum(h) \div Len(h)

\* a history that drops its newest sample instead of its oldest
PopNewest(h) == IF Len(h) > history_length THEN SubSeq(h, 1, Len(h) - 1) ELSE h

\* pressure_history.pop(0) once the history is longer than history_length
PopOldest(h) == IF Len(h) > history_length THEN Tail(h) ELSE h

\* the pressure the error is computed from: the mean of the history once it
\* holds three samples, the reading itself before that
Smoothed(h, current_pressure) ==
    IF Len(h) >= 3 THEN Mean(h) ELSE current_pressure

\* a rate limit that never triggers
TooSoonNever(dt) == dt < 0

\* the call is made before sample_time has passed since prev_time
TooSoon(dt) == dt < sample_time

\* kp * error + kd * derivative with kp = 0.1 and kd = 0.05
Correction(error, prev_error, dt) ==
    (error \div 10) + (IF dt > 0 THEN (50 * (error - prev_error)) \div dt ELSE 0)

\* a clamp that lost its upper limit
ClampLow(rate) == IF rate < min_extrusion THEN min_extrusion ELSE rate

\* max(min_extrusion, min(max_extrusion, rate))
Clamp(rate) ==
    LET low == IF rate < max_extrusion THEN rate ELSE max_extrusion
    IN IF min_extrusion < low THEN low ELSE min_extrusion

\* PressureController.__init__ at time 0
PressureController == [prev_error |-> 0, prev_time |-> 0, pressure_history |-> <<>>]

\* PressureController.calculate_extrusion_rate: the object after the call,
\* the rate returned, whether the tick was accepted and the error it used
calculate_extrusion_rate(c, current_time, current_pressure, target, current_extrusion_rate) ==
    LET dt == current_time - c.prev_time
        h == PopOldest(Append(c.pressure_history, current_pressure))
        error == target - Smoothed(h, current_pressure)
    IN IF TooSoon(dt)
       THEN [ctl |-> c, ret |-> current_extrusion_rate, accepted |-> FALSE,
             error |-> c.prev_error]
       ELSE [ctl |-> [prev_error |-> error, prev_time |-> current_time,
                      pressure_history |-> h],
             ret |-> Clamp(current_extrusion_rate + Correction(error, c.prev_error, dt)),
             accepted |-> TRUE, error |-> error]

\* the controller, the clock, the rate its caller holds, and a record of the
\* last call: the rate passed, the rate returned, whether the tick was
\* accepted, whether the load cell had a reading, and every accepted sample
PressureInit ==
    [ctl |-> PressureController, now |-> 0, rate |-> initial_extrusion,
     arg |-> initial_extrusion, ret |-> initial_extrusion, accepted |-> FALSE,
     missing |-> FALSE, error |-> 0, samples |-> <<>>, calls |-> 0]

----------------------------------------------------------------------------
(* A KlipperController on its own: connect() and wait_for_idle() of the    *)
(* two classes, klipper_controller.py ("root", used by main.py and the     *)
(* GUI) and hardware/klipper_controller.py ("hardware", used by the CLI).  *)
(* Times are in 1/10 s, velocities in 1/100 mm/s.                          *)

Impls == {"root", "hardware"}

\* printer states Klipper reports in /printer/info
KlipperStates == {"ready", "error", "shutdown", "startup"}

\* test_connection() of the hardware class: what connect() then looks at
test_connection(reachable, info_ok, state) ==
    [moonraker_reachable |-> reachable,
     printer_info_available |-> reachable /\ info_ok,
     printer_state |-> IF reachable /\ info_ok THEN state ELSE "unknown"]

\* connect() of the hardware class
hardware_connect(reachable, info_ok, state) ==
    LET t == test_connection(reachable, info_ok, state) IN
    IF ~t.moonraker_reachable THEN FALSE
    ELSE IF ~t.printer_info_available THEN FALSE
    ELSE t.printer_state # "shutdown"

\* connect() of the root class: the GET of /printer/info succeeded; the
\* state it reports is printed, not examined
root_connect(reachable, info_ok, state) == reachable /\ info_ok

connect(impl, reachable, info_ok, state) ==
    IF impl = "root" THEN root_connect(reachable, info_ok, state)
    ELSE hardware_connect(reachable, info_ok, state)

\* live_velocity above which is_printer_moving() answers True: 0.1 mm/s
velocity_threshold == 10

Velocities == {0, 5000}

\* values of print_stats.state; "" when the answer carries none
PrintStates == {"standby", "printing", ""}

\* the timeouts wait_for_idle(timeout) is called with
Timeouts == {MaxTimeout}

\* is_printer_moving() of the hardware class; a failed query answers False
is_printer_moving(ok, velocity) == ok /\ velocity > velocity_threshold

\* what one poll of wait_for_idle takes the printer to be
Reported(impl, ok, state, velocity) ==
    IF impl = "root"
    THEN IF ~ok THEN "failed"
         ELSE IF state \in {"ready", "standby", ""} THEN "idle" ELSE "busy"
    ELSE IF ~ok THEN "failed"
         ELSE IF velocity > velocity_threshold THEN "busy" ELSE "idle"

\* what the status query itself gave: no answer, an answer without the
\* field asked for, or a reading
Answer(impl, ok, state, velocity) ==
    IF ~ok THEN "failed"
    ELSE IF impl = "root" /\ state = "" THEN "empty"
    ELSE "reading"

\* send_gcode of either class transmits only when the connected flag is set
\* and the POST succeeds; it returns whether it transmitted
unit_send_gcode(connected, ok) == connected /\ ok

\* the poll lets wait_for_idle go on towards returning True
PollPasses(impl, ok, state, velocity) ==
    IF impl = "root" THEN Reported(impl, ok, state, velocity) = "idle"
    ELSE ~is_printer_moving(ok, velocity)

\* a controller just constructed: nothing probed, no wait in progress
KlipperInit(impl) ==
    [impl |-> impl, connected |-> FALSE,
     probe |-> [reachable |-> FALSE, info_ok |-> FALSE, state |-> "unknown"],
     result |-> "none",
     wpc |-> "off", clock |-> 0, timeout |-> 0, polls |-> <<>>,
     answer |-> "none"]

----------------------------------------------------------------------------
(* Motion controller (klipper_controller.py) *)

IsModeLine(line) == line # <<>> /\ line[1].s \in {"G90", "G91"}

IsMoveLine(line) == line # <<>> /\ line[1].s = "G1"

IsHomeLine(line) == line # <<>> /\ line[1].s = "G28"

\* mode the controller is in after executing the line
ModeAfter(mode, line) ==
    IF line # <<>> /\ line[1].s = "G90" THEN "abs"
    ELSE IF line # <<>> /\ line[1].s = "G91" THEN "rel"
    ELSE mode

\* send_gcode transmits only when connected and the POST succeeds
Transmits(ok) == controller = "up" /\ ok

\* KlipperController.send_gcode(command), called by run r for instruction idx;
\* ok is the outcome of the HTTP request.  wait_complete is False at every
\* call site of the engines, so the call returns without waiting for idle.
send_gcode(r, idx, command, ok, pcNext, iNext) ==
    /\ runs' = [runs EXCEPT ![r].calls = Append(@, [idx |-> idx, line |-> command]),
                            ![r].pc = pcNext,
                            ![r].i = iNext]
    /\ ctrlMode' = IF Transmits(ok) THEN ModeAfter(ctrlMode, command) ELSE ctrlMode
    /\ moving' = IF Transmits(ok) /\ (IsMoveLine(command) \/ IsHomeLine(command))
                 THEN TRUE ELSE moving

\* the printer finishes the motion it had queued
MotionComplete ==
    /\ moving
    /\ moving' = FALSE
    /\ UNCHANGED <<engine, toolpath, runs, printer_connected, controller,
                   ctrlMode, stopRuns>>
    /\ UNCHANGED offlineVars

----------------------------------------------------------------------------
(* Runs *)

Runs == 1..MaxRuns

\* no directive being handled; mode is the controller mode when handling began
NoCap == [camera |-> <<>>, x |-> <<>>, y |-> <<>>, z |-> <<>>, mode |-> "abs"]

IdleRun == [pc |-> "idle", i |-> 0, calls |-> <<>>, cap |-> NoCap, shots |-> 0]

Active(r) == runs[r].pc \notin {"idle", "done", "failed"}

\* a loop that falls back to the first element after the second
NextInstrRewind(i) == IF i >= 2 THEN 1 ELSE i + 1

\* the for loop moves on to the next element of the list
NextInstr(i) == i + 1

----------------------------------------------------------------------------
(* printer_gui.py: the timelapse control.  Every start creates a thread on *)
(* _run_timelapse; the threads share self.timelapse_active.                *)

Workers == 1..MaxWorkers

\* a thread not yet created
NoWorker == [pc |-> "unborn", captured_frames |-> 0]

TimelapseInit == [timelapse_active |-> FALSE, w |-> [k \in Workers |-> NoWorker]]

\* start_timelapse: valid is whether the entry fields convert and interval
\* and duration are positive
start_timelapse(valid) ==
    IF valid /\ \E k \in Workers : tl.w[k].pc = "unborn"
    THEN LET k == CHOOSE j \in Workers :
                     /\ tl.w[j].pc = "unborn"
                     /\ \A q \in Workers : q < j => tl.w[q].pc # "unborn"
         IN tl' = [tl EXCEPT !.timelapse_active = TRUE, !.w[k].pc = "check"]
    ELSE UNCHANGED tl

\* stop_timelapse: clears the flag; the thread is neither joined nor told
\* apart from a later one
stop_timelapse == tl' = [tl EXCEPT !.timelapse_active = FALSE]

\* the button: toggle_timelapse
Tl_toggle_timelapse(valid) ==
    /\ IF tl.timelapse_active THEN stop_timelapse ELSE start_timelapse(valid)
    /\ UNCHANGED <<engineVars, genVars, pctl, kctl>>

\* the while condition; expired is (time.time() - start_time) >= duration_seconds
Tl_check(k, expired) ==
    /\ tl.w[k].pc = "check"
    /\ tl' = [tl EXCEPT !.w[k].pc =
                 IF tl.timelapse_active /\ ~expired
                    /\ tl.w[k].captured_frames < MaxFrames
                 THEN "capture" ELSE "epilogue"]
    /\ UNCHANGED <<engineVars, genVars, pctl, kctl>>

\* capture_image(...) and the test before time.sleep(interval); raised is an
\* exception in the body, which leaves the loop
Tl_capture(k, success, raised, lastFrame) ==
    /\ tl.w[k].pc = "capture"
    /\ tl' = [tl EXCEPT
                 !.w[k].captured_frames = IF success /\ ~raised THEN @ + 1 ELSE @,
                 !.w[k].pc = IF raised THEN "epilogue"
                             ELSE IF tl.timelapse_active /\ ~lastFrame THEN "sleep"
                             ELSE "check"]
    /\ UNCHANGED <<engineVars, genVars, pctl, kctl>>

\* time.sleep(interval) returns
Tl_wake(k) ==
    /\ tl.w[k].pc = "sleep"
    /\ tl' = [tl EXCEPT !.w[k].pc = "check"]
    /\ UNCHANGED <<engineVars, genVars, pctl, kctl>>

\* after the loop: a worker that finds the flag set clears it
Tl_finish(k) ==
    /\ tl.w[k].pc = "epilogue"
    /\ tl' = [tl EXCEPT !.w[k].pc = "done",
                        !.timelapse_active = IF @ THEN FALSE ELSE @]
    /\ UNCHANGED <<engineVars, genVars, pctl, kctl>>

----------------------------------------------------------------------------
(* main.py: the replay loop of main() *)

\* main() builds the controller and never calls connect()
Main_Begin ==
    /\ engine = "main"
    /\ runs[1].pc = "idle"
    /\ runs' = [runs EXCEPT ![1].pc = "loop", ![1].i = 1]
    /\ UNCHANGED <<engine, toolpath, printer_connected, controller, ctrlMode,
                   moving, stopRuns>>
    /\ UNCHANGED offlineVars

\* one iteration of `for comand in toolpath` up to its first send_gcode
Main_Loop(ok) ==
    /\ engine = "main"
    /\ runs[1].pc = "loop"
    /\ LET i == runs[1].i IN
       IF i > Len(toolpath)
       THEN /\ runs' = [runs EXCEPT ![1].pc = "done"]
            /\ UNCHANGED <<ctrlMode, moving>>
       ELSE LET comand == toolpath[i]
                parts == Split(comand)
            IN IF Contains(comand, "CAPTURE")
               THEN IF Len(parts) < 5
                    THEN \* IndexError, not caught
                         /\ runs' = [runs EXCEPT ![1].pc = "failed"]
                         /\ UNCHANGED <<ctrlMode, moving>>
                    ELSE /\ runs' = [runs EXCEPT
                                ![1].cap = [camera |-> parts[2], x |-> parts[3],
                                            y |-> parts[4], z |-> parts[5],
                                            mode |-> ctrlMode],
                                ![1].pc = "cap_abs"]
                         /\ UNCHANGED <<ctrlMode, moving>>
               ELSE send_gcode(1, i, comand, ok, "loop", NextInstr(i))
    /\ UNCHANGED <<engine, toolpath, printer_connected, controller, stopRuns>>
    /\ UNCHANGED offlineVars

Main_CaptureAbsolute(ok) ==
    /\ engine = "main"
    /\ runs[1].pc = "cap_abs"
    /\ send_gcode(1, runs[1].i, absolute[1], ok, "cap_mv2", runs[1].i)
    /\ UNCHANGED <<engine, toolpath, printer_connected, controller, stopRuns>>
    /\ UNCHANGED offlineVars

Main_CaptureMove(ok) ==
    /\ engine = "main"
    /\ runs[1].pc = "cap_mv2"
    /\ LET c == runs[1].cap IN
       send_gcode(1, runs[1].i, movePrintHead(c.x, c.y, c.z, MXeneProfile_pet_25G)[1],
                  ok, "cap_shoot", runs[1].i)
    /\ UNCHANGED <<engine, toolpath, printer_connected, controller, stopRuns>>
    /\ UNCHANGED offlineVars

\* capture_image(int(camera), ...) then time.sleep(1)
Main_CaptureImage ==
    /\ engine = "main"
    /\ runs[1].pc = "cap_shoot"
    /\ IF Parses(runs[1].cap.camera)
       THEN runs' = [runs EXCEPT ![1].pc = "loop", ![1].i = NextInstr(@),
                                 ![1].shots = @ + 1, ![1].cap = NoCap]
       ELSE runs' = [runs EXCEPT ![1].pc = "failed"]
    /\ UNCHANGED <<engine, toolpath, printer_connected, controller, ctrlMode,
                   moving, stopRuns>>
    /\ UNCHANGED offlineVars

----------------------------------------------------------------------------
(* printer_gui.py: operator handlers *)

\* connect_printer: a new KlipperController, then connect(); reachable is
\* the outcome of the request to /printer/info
Gui_connect_printer(reachable) ==
    /\ engine = "gui"
    /\ controller' = IF reachable THEN "up" ELSE "down"
    /\ printer_connected' = IF reachable THEN TRUE ELSE printer_connected
    /\ UNCHANGED <<engine, toolpath, runs, ctrlMode, moving, stopRuns>>
    /\ UNCHANGED offlineVars

Gui_disconnect_printer ==
    /\ engine = "gui"
    /\ printer_connected' = FALSE
    /\ controller' = "none"
    /\ UNCHANGED <<engine, toolpath, runs, ctrlMode, moving, stopRuns>>
    /\ UNCHANGED offlineVars

\* emergency_stop: controller.emergency_stop() sends M112; nothing else changes
Gui_emergency_stop ==
    /\ engine = "gui"
    /\ printer_connected /\ controller # "none"
    /\ stopRuns' = stopRuns \cup {r \in Runs : Active(r)}
    /\ UNCHANGED <<engine, toolpath, runs, printer_connected, controller,
                   ctrlMode, moving>>
    /\ UNCHANGED offlineVars

\* begin_print_sequence: starts a new thread on _execute_print_sequence
Gui_begin_print_sequence(r) ==
    /\ engine = "gui"
    /\ printer_connected
    /\ toolpath # <<>>
    /\ runs[r].pc = "idle"
    /\ \A q \in Runs : q < r => runs[q].pc # "idle"
    /\ runs' = [runs EXCEPT ![r].pc = "start"]
    /\ UNCHANGED <<engine, toolpath, printer_connected, controller, ctrlMode,
                   moving, stopRuns>>
    /\ UNCHANGED offlineVars

----------------------------------------------------------------------------
(* printer_gui.py: the run thread *)

\* _execute_print_sequence up to the entry of _execute_toolpath
Gui_execute_print_sequence(r) ==
    /\ engine = "gui"
    /\ runs[r].pc = "start"
    /\ runs' = [runs EXCEPT ![r].pc = IF controller = "none" THEN "final" ELSE "loop",
                            ![r].i = 1]
    /\ UNCHANGED <<engine, toolpath, printer_connected, controller, ctrlMode,
                   moving, stopRuns>>
    /\ UNCHANGED offlineVars

\* parts = [part.strip() for part in command.split(",")]
GuiParts(command) == [k \in 1..Len(Split(command)) |-> Strip(Split(command)[k])]

\* the directive passes the length test and the int()/float() conversions
GuiCaptureAccepted(command) ==
    /\ Len(GuiParts(command)) = 5
    /\ \A k \in 2..5 : Parses(GuiParts(command)[k])

\* a line _execute_toolpath hands to send_gcode
GuiForwards(command) == ~Contains(command, "CAPTURE") /\ ~Contains(command, ";")

\* one iteration of `for command in self.toolpath` up to its first send_gcode
Gui_execute_toolpath(r, ok) ==
    /\ engine = "gui"
    /\ runs[r].pc = "loop"
    /\ LET i == runs[r].i IN
       IF i > Len(toolpath)
       THEN /\ runs' = [runs EXCEPT ![r].pc = "final"]
            /\ UNCHANGED <<ctrlMode, moving>>
       ELSE LET command == toolpath[i]
                parts == GuiParts(command)
            IN IF Contains(command, "CAPTURE")
               THEN IF GuiCaptureAccepted(command)
                    THEN /\ runs' = [runs EXCEPT
                                ![r].cap = [camera |-> parts[2], x |-> parts[3],
                                            y |-> parts[4], z |-> parts[5],
                                            mode |-> ctrlMode],
                                ![r].pc = IF controller # "none" THEN "cap_abs"
                                          ELSE "cap_shoot"]
                         /\ UNCHANGED <<ctrlMode, moving>>
                    ELSE \* wrong length, or ValueError caught: directive skipped
                         /\ runs' = [runs EXCEPT ![r].i = NextInstr(i)]
                         /\ UNCHANGED <<ctrlMode, moving>>
               ELSE IF GuiForwards(command)
               THEN IF controller = "none"
                    THEN \* AttributeError ends _execute_print_sequence
                         /\ runs' = [runs EXCEPT ![r].pc = "failed"]
                         /\ UNCHANGED <<ctrlMode, moving>>
                    ELSE send_gcode(r, i, command, ok, "loop", NextInstr(i))
               ELSE /\ runs' = [runs EXCEPT ![r].i = NextInstr(i)]
                    /\ UNCHANGED <<ctrlMode, moving>>
    /\ UNCHANGED <<engine, toolpath, printer_connected, controller, stopRuns>>
    /\ UNCHANGED offlineVars

\* a send_gcode of _handle_capture_command; the controller attribute is
\* read again at every call
GuiCaptureSend(r, ok, line, pcNext) ==
    /\ IF controller = "none"
       THEN /\ runs' = [runs EXCEPT ![r].pc = "failed"]
            /\ UNCHANGED <<ctrlMode, moving>>
       ELSE send_gcode(r, runs[r].i, line, ok, pcNext, runs[r].i)
    /\ UNCHANGED <<engine, toolpath, printer_connected, controller, stopRuns>>
    /\ UNCHANGED offlineVars

Gui_capture_absolute(r, ok) ==
    /\ engine = "gui"
    /\ runs[r].pc = "cap_abs"
    /\ GuiCaptureSend(r, ok, absolute[1], "cap_mv1")

\* movePrintHead(0, 0, z, profile)
Gui_capture_move_z(r, ok) ==
    /\ engine = "gui"
    /\ runs[r].pc = "cap_mv1"
    /\ GuiCaptureSend(r, ok,
          movePrintHead(Fmt(0), Fmt(0), runs[r].cap.z, MXeneProfile_pet_25G)[1],
          "cap_mv2")

\* movePrintHead(x, y, 0, profile)
Gui_capture_move_xy(r, ok) ==
    /\ engine = "gui"
    /\ runs[r].pc = "cap_mv2"
    /\ GuiCaptureSend(r, ok,
          movePrintHead(runs[r].cap.x, runs[r].cap.y, Fmt(0), MXeneProfile_pet_25G)[1],
          "cap_shoot")

\* capture_image(...) returns (success, result); then time.sleep(1)
Gui_capture_image(r) ==
    /\ engine = "gui"
    /\ runs[r].pc = "cap_shoot"
    /\ runs' = [runs EXCEPT ![r].pc = "loop", ![r].i = NextInstr(@),
                            ![r].shots = @ + 1, ![r].cap = NoCap]
    /\ UNCHANGED <<engine, toolpath, printer_connected, controller, ctrlMode,
                   moving, stopRuns>>
    /\ UNCHANGED offlineVars

\* _capture_final_images, then the thread ends
Gui_capture_final_images(r) ==
    /\ engine = "gui"
    /\ runs[r].pc = "final"
    /\ runs' = [runs EXCEPT ![r].pc = "done"]
    /\ UNCHANGED <<engine, toolpath, printer_connected, controller, ctrlMode,
                   moving, stopRuns>>
    /\ UNCHANGED offlineVars

----------------------------------------------------------------------------
(* Specification of the execution engines *)

Init ==
    /\ engine \in {"main", "gui"}
    /\ toolpath \in Toolpaths
    /\ runs = [r \in Runs |-> IdleRun]
    /\ printer_connected = FALSE
    /\ controller = IF engine = "main" THEN "down" ELSE "none"
    /\ ctrlMode \in {"abs", "rel"}
    /\ moving = FALSE
    /\ stopRuns = {}
    /\ prnt = MXeneProfile_pet_25G
    /\ genOut = <<>>
    /\ genName = "none"
    /\ genCalls = 0
    /\ prnt0 = prnt
    /\ saved = NoFile
    /\ pctl = PressureInit
    /\ tl = TimelapseInit
    /\ kctl = KlipperInit("root")

Next ==
    \/ Main_Begin
    \/ \E ok \in BOOLEAN : Main_Loop(ok)
    \/ \E ok \in BOOLEAN : Main_CaptureAbsolute(ok)
    \/ \E ok \in BOOLEAN : Main_CaptureMove(ok)
    \/ Main_CaptureImage
    \/ \E reachable \in BOOLEAN : Gui_connect_printer(reachable)
    \/ Gui_disconnect_printer
    \/ Gui_emergency_stop
    \/ \E r \in Runs : Gui_begin_print_sequence(r)
    \/ \E r \in Runs : Gui_execute_print_sequence(r)
    \/ \E r \in Runs, ok \in BOOLEAN : Gui_execute_toolpath(r, ok)
    \/ \E r \in Runs, ok \in BOOLEAN : Gui_capture_absolute(r, ok)
    \/ \E r \in Runs, ok \in BOOLEAN : Gui_capture_move_z(r, ok)
    \/ \E r \in Runs, ok \in BOOLEAN : Gui_capture_move_xy(r, ok)
    \/ \E r \in Runs : Gui_capture_image(r)
    \/ \E r \in Runs : Gui_capture_final_images(r)
    \/ MotionComplete

Spec == Init /\ [][Next]_vars

----------------------------------------------------------------------------
(* Specification of the generators: calls on one shared profile object *)

Returned(name, res) ==
    /\ genCalls < MaxGenCalls
    /\ genOut' = res.out
    /\ prnt' = res.prnt
    /\ genName' = name
    /\ genCalls' = genCalls + 1
    /\ UNCHANGED <<prnt0, saved>>
    /\ UNCHANGED engineVars
    /\ UNCHANGED unitVars

Call_printPrimeLine ==
    Returned("printPrimeLine",
             [out |-> printPrimeLine(500, 1000, 1000, prnt), prnt |-> prnt])

Call_lattice ==
    \E rows \in 1..MaxRows, cols \in 1..MaxCols :
        Returned("lattice", lattice(1000, 4000, rows, cols, 300, prnt))

Call_massFlowTest ==
    \E isNone \in BOOLEAN, rates \in {<<>>, <<10>>, <<10, 20>>} :
        Returned("massFlowTest", massFlowTest(prnt, isNone, rates))

Call_toolpath_generate_toolpath ==
    Returned("toolpath.generate_toolpath", toolpath_generate_toolpath(prnt, stdCap))

Call_printCap_contact_patch ==
    Returned("printCap_contact_patch",
             printCap_contact_patch(stdCap, prnt, 1000, 2000))

Call_printLayers ==
    \E xOffset \in {0, 10} :
        Returned("printLayers", printLayers(stdCap, prnt, 1000, 2000, xOffset, 0))

Call_layered_FFT ==
    \E iterations \in 1..MaxIterations, layers \in 1..MaxLayers :
        Returned("layered_FFT",
                 layered_FFT(prnt, 6000, 5000, 3000, 500, iterations, 90, 50, layers))

InitGen ==
    /\ engine = "gui"
    /\ toolpath = home
    /\ runs = [r \in Runs |-> IdleRun]
    /\ printer_connected = FALSE
    /\ controller = "none"
    /\ ctrlMode = "abs"
    /\ moving = FALSE
    /\ stopRuns = {}
    /\ prnt \in {MXeneProfile_pet_25G, MXeneProfile2_20}
    /\ genOut = <<>>
    /\ genName = "none"
    /\ genCalls = 0
    /\ prnt0 = prnt
    /\ saved = NoFile
    /\ pctl = PressureInit
    /\ tl = TimelapseInit
    /\ kctl = KlipperInit("root")

Call_main_generate_toolpath ==
    \E binds \in BOOLEAN :
        Returned("main.generate_toolpath", main_generate_toolpath(prnt, binds))

Call_printCap ==
    Returned("printCap", printCap(stdCap, prnt, 1000, 2000))

Call_singleLineCap ==
    \E layers \in 1..MaxLayers :
        Returned("singleLineCap",
                 singleLineCap(stdCap, prnt, layers, 50, 5, 1000, 2000))

Call_singleLineCap_left ==
    \E layers \in 1..MaxLayers :
        Returned("singleLineCap_left",
                 singleLineCap_left(stdCap, prnt, layers, 50, 5, 1000, 2000))

Call_singleLineCap_right ==
    \E layers \in 1..MaxLayers :
        Returned("singleLineCap_right",
                 singleLineCap_right(stdCap, prnt, layers, 50, 5, 1000, 2000))

Call_printibility_layered_FFT ==
    \E iterations \in 1..MaxIterations, layers \in 1..MaxLayers :
        Returned("printibility.layered_FFT",
                 printibility_layered_FFT(prnt, 50, layers, 6000, 5000, 3000,
                                          1000, iterations, 85))

\* a saver is called with the list the last generator call returned
Saved(by, text) ==
    /\ genName # "none"
    /\ saved.by # by
    /\ saved' = [by |-> by, tp |-> genOut, text |-> text]
    /\ UNCHANGED <<prnt, genOut, genName, genCalls, prnt0>>
    /\ UNCHANGED engineVars
    /\ UNCHANGED unitVars

Call_main_save_toolpath == Saved("main.save_toolpath", main_save_toolpath(genOut))

Call_gui_save_toolpath == Saved("PrinterGUI._save_toolpath", gui_save_toolpath(genOut))

Call_toolpath_save_toolpath ==
    Saved("toolpath.save_toolpath", toolpath_save_toolpath(genOut))

NextGen ==
    \/ Call_main_save_toolpath
    \/ Call_gui_save_toolpath
    \/ Call_toolpath_save_toolpath
    \/ Call_main_generate_toolpath
    \/ Call_printibility_layered_FFT
    \/ Call_singleLineCap
    \/ Call_singleLineCap_left
    \/ Call_singleLineCap_right
    \/ Call_printCap
    \/ Call_printPrimeLine
    \/ Call_lattice
    \/ Call_massFlowTest
    \/ Call_toolpath_generate_toolpath
    \/ Call_printCap_contact_patch
    \/ Call_printLayers
    \/ Call_layered_FFT

SpecGen == InitGen /\ [][NextGen]_vars

----------------------------------------------------------------------------
(* Specification of the pressure controller: a caller that reads the load  *)
(* cell, calls the controller and keeps the rate it returns, as the loop   *)
(* at the end of pressure_controller.py does                               *)

Call_calculate_extrusion_rate(elapsed, available, newtons) ==
    /\ pctl.calls < MaxTicks
    /\ LET current_time == pctl.now + elapsed
           current_pressure == getLoad(available, newtons)
           res == calculate_extrusion_rate(pctl.ctl, current_time, current_pressure,
                                           target_pressure, pctl.rate)
       IN pctl' = [ctl |-> res.ctl, now |-> current_time, rate |-> res.ret,
                   arg |-> pctl.rate, ret |-> res.ret,
                   accepted |-> res.accepted, missing |-> ~available,
                   error |-> res.error,
                   samples |-> IF res.accepted
                               THEN Append(pctl.samples, current_pressure)
                               ELSE pctl.samples,
                   calls |-> pctl.calls + 1]
    /\ UNCHANGED <<engineVars, genVars, kctl, tl>>

\* PressureController.reset()
Call_reset ==
    /\ pctl.calls < MaxTicks
    /\ pctl.samples # <<>>
    /\ pctl' = [pctl EXCEPT !.ctl = [prev_error |-> 0, prev_time |-> pctl.now,
                                     pressure_history |-> <<>>],
                            !.samples = <<>>,
                            !.accepted = FALSE,
                            !.missing = FALSE,
                            !.calls = @ + 1]
    /\ UNCHANGED <<engineVars, genVars, kctl, tl>>

NextPressure ==
    \/ \E elapsed \in Elapsed, newtons \in Pressures :
          Call_calculate_extrusion_rate(elapsed, TRUE, newtons)
    \/ \E elapsed \in Elapsed : Call_calculate_extrusion_rate(elapsed, FALSE, 0)
    \/ Call_reset

InitPressure ==
    /\ engine = "gui"
    /\ toolpath = home
    /\ runs = [r \in Runs |-> IdleRun]
    /\ printer_connected = FALSE
    /\ controller = "none"
    /\ ctrlMode = "abs"
    /\ moving = FALSE
    /\ stopRuns = {}
    /\ prnt = MXeneProfile_pet_25G
    /\ genOut = <<>>
    /\ genName = "none"
    /\ genCalls = 0
    /\ prnt0 = prnt
    /\ saved = NoFile
    /\ pctl = PressureInit
    /\ tl = TimelapseInit
    /\ kctl = KlipperInit("root")

SpecPressure == InitPressure /\ [][NextPressure]_vars

----------------------------------------------------------------------------
(* Specification of one KlipperController: connect() and wait_for_idle()   *)

Kc_connect(reachable, info_ok, state) ==
    /\ kctl.wpc = "off"
    /\ LET ok == connect(kctl.impl, reachable, info_ok, state) IN
       kctl' = [kctl EXCEPT
                  !.connected = IF ok THEN TRUE
                                ELSE IF kctl.impl = "root" THEN FALSE ELSE @,
                  !.probe = [reachable |-> reachable, info_ok |-> info_ok,
                             state |-> state],
                  !.result = IF ok THEN "true" ELSE "false"]
    /\ UNCHANGED <<engineVars, genVars, pctl, tl>>

\* wait_for_idle(timeout) is entered
Kc_wait_for_idle(timeout) ==
    /\ kctl.wpc = "off"
    /\ kctl' = [kctl EXCEPT !.wpc = "head", !.clock = 0, !.timeout = timeout,
                            !.polls = <<>>, !.answer = "none"]
    /\ UNCHANGED <<engineVars, genVars, pctl, tl>>

\* one pass of the while loop up to its first sleep: the root class
\* returns True on an idle answer and sleeps 0.5 s otherwise; the hardware
\* class sleeps 0.2 s before its second look, 0.1 s when the head moves
Kc_poll(ok, state, velocity) ==
    /\ kctl.wpc = "head"
    /\ kctl.clock < kctl.timeout
    /\ LET passes == PollPasses(kctl.impl, ok, state, velocity) IN
       kctl' = [kctl EXCEPT
                  !.polls = Append(@, Reported(kctl.impl, ok, state, velocity)),
                  !.answer = Answer(kctl.impl, ok, state, velocity),
                  !.wpc = IF ~passes THEN "head"
                          ELSE IF kctl.impl = "root" THEN "true" ELSE "recheck",
                  !.clock = IF kctl.impl = "root"
                            THEN (IF passes THEN @ ELSE @ + 5)
                            ELSE (IF passes THEN @ + 2 ELSE @ + 1)]
    /\ UNCHANGED <<engineVars, genVars, pctl, tl>>

\* the second look of the hardware class
Kc_recheck(ok, velocity) ==
    /\ kctl.wpc = "recheck"
    /\ LET passes == ~is_printer_moving(ok, velocity) IN
       kctl' = [kctl EXCEPT
                  !.polls = Append(@, Reported(kctl.impl, ok, "", velocity)),
                  !.answer = Answer(kctl.impl, ok, "", velocity),
                  !.wpc = IF passes THEN "true" ELSE "head",
                  !.clock = IF passes THEN @ ELSE @ + 1]
    /\ UNCHANGED <<engineVars, genVars, pctl, tl>>

\* the while condition fails: return False
Kc_timeout ==
    /\ kctl.wpc = "head"
    /\ kctl.clock >= kctl.timeout
    /\ kctl' = [kctl EXCEPT !.wpc = "false"]
    /\ UNCHANGED <<engineVars, genVars, pctl, tl>>

InitKlipper ==
    /\ engine = "gui"
    /\ toolpath = home
    /\ runs = [r \in Runs |-> IdleRun]
    /\ printer_connected = FALSE
    /\ controller = "none"
    /\ ctrlMode = "abs"
    /\ moving = FALSE
    /\ stopRuns = {}
    /\ prnt = MXeneProfile_pet_25G
    /\ genOut = <<>>
    /\ genName = "none"
    /\ genCalls = 0
    /\ prnt0 = prnt
    /\ saved = NoFile
    /\ pctl = PressureInit
    /\ tl = TimelapseInit
    /\ kctl \in {KlipperInit(impl) : impl \in Impls}

NextKlipper ==
    \/ \E reachable, info_ok \in BOOLEAN, state \in KlipperStates :
          Kc_connect(reachable, info_ok, state)
    \/ \E timeout \in Timeouts : Kc_wait_for_idle(timeout)
    \/ \E ok \in BOOLEAN, state \in PrintStates, velocity \in Velocities :
          Kc_poll(ok, state, velocity)
    \/ \E ok \in BOOLEAN, velocity \in Velocities : Kc_recheck(ok, velocity)
    \/ Kc_timeout

SpecKlipper == InitKlipper /\ [][NextKlipper]_vars

----------------------------------------------------------------------------
(* Specification of the engines replaying toolpaths that carry the pause   *)
(* and wait directives of the generators                                   *)

IsPauseLine(line) == line # <<>> /\ line[1].s = "PASUE"

IsWaitLine(line) == line = waitForInput[2]

DirectiveLines ==
    { pause(5)[3], waitForInput[2], home[1], printY(500, MXeneProfile_pet_25G)[1],
      CaptureLine5 }

DirectiveToolpaths == UNION { [1..n -> DirectiveLines] : n \in 1..MaxLen }

InitDirectives ==
    /\ engine \in {"main", "gui"}
    /\ toolpath \in DirectiveToolpaths
    /\ runs = [r \in Runs |-> IdleRun]
    /\ printer_connected = FALSE
    /\ controller = IF engine = "main" THEN "down" ELSE "none"
    /\ ctrlMode \in {"abs", "rel"}
    /\ moving = FALSE
    /\ stopRuns = {}
    /\ prnt = MXeneProfile_pet_25G
    /\ genOut = <<>>
    /\ genName = "none"
    /\ genCalls = 0
    /\ prnt0 = prnt
    /\ saved = NoFile
    /\ pctl = PressureInit
    /\ tl = TimelapseInit
    /\ kctl = KlipperInit("root")

SpecDirectives == InitDirectives /\ [][Next]_vars

----------------------------------------------------------------------------
(* Properties *)

\* the numeric argument that follows the axis letter in a G-code line
RECURSIVE ArgFrom(_, _)
ArgFrom(line, k) ==
    IF k > Len(line) THEN N(0)
    ELSE IF line[k] = SP THEN ArgFrom(line, k + 1)
    ELSE line[k]

AxisArg(line, axis) ==
    LET k == CHOOSE k \in 1..Len(line) : line[k].s = axis IN ArgFrom(line, k + 1)

Calls(r) == runs[r].calls

LastCall(r) == Calls(r)[Len(Calls(r))]

\* C1: within a run the send_gcode calls follow the toolpath: their
\* instruction indices never decrease, no call is made for an instruction
\* the loop has not reached, every line that is not a capture directive is
\* sent as its own single command, and while the loop stands between two
\* instructions every call made belongs to an earlier one.
C1_DispatchInToolpathOrder ==
    \A r \in Runs :
        LET c == Calls(r) IN
        /\ \A j, k \in 1..Len(c) : j < k => c[j].idx <= c[k].idx
        /\ \A k \in 1..Len(c) :
              /\ c[k].idx >= 1 /\ c[k].idx <= Len(toolpath)
              /\ c[k].idx <= runs[r].i
              /\ runs[r].pc = "loop" => c[k].idx < runs[r].i
              /\ ~Contains(toolpath[c[k].idx], "CAPTURE") =>
                    /\ c[k].line = toolpath[c[k].idx]
                    /\ \A j \in 1..Len(c) : c[j].idx = c[k].idx => j = k

\* C1 witness: a run has dispatched two different instructions, a capture
\* directive with its moves among them, while another run is dispatching too
C1_Witness ==
    \E r, q \in Runs :
        /\ r # q
        /\ Len(Calls(r)) >= 3
        /\ Calls(r)[1].idx < LastCall(r).idx
        /\ \E k \in 1..Len(Calls(r)) : Contains(toolpath[Calls(r)[k].idx], "CAPTURE")
        /\ Len(Calls(q)) >= 1

\* C2: when the handling of a capture directive ends, the controller is in
\* the positioning mode it was in when the handling began.
C2_ModeRestoredAfterCapture ==
    [][\A r \in Runs :
          (runs[r].pc = "cap_shoot" /\ runs'[r].pc = "loop")
              => ctrlMode' = runs[r].cap.mode]_vars

\* a mode switch precedes the first move of the toolpath
ModeBeforeMove(tp) ==
    \A k \in 1..Len(tp) :
        IsMoveLine(tp[k]) => \E j \in 1..(k - 1) : IsModeLine(tp[j])

\* C3: every toolpath a generator returns has a G90 or G91 line before its
\* first G1 line.
C3_ModeSetBeforeFirstMove == ModeBeforeMove(genOut)

\* C4: a run that was executing when the emergency stop was issued makes
\* no further send_gcode call.
C4_NoDispatchAfterEmergencyStop ==
    [][\A r \in stopRuns : Calls(r)' = Calls(r)]_vars

\* C5: at most one run is executing at any time.
C5_AtMostOneRun == Cardinality({r \in Runs : Active(r)}) <= 1

\* a capture directive with fewer than five comma-separated fields
MissingFields(line) == Contains(line, "CAPTURE") /\ Len(Split(line)) < 5

\* C6: a capture directive with missing fields causes no send_gcode call and
\* does not end the run.
C6_MalformedCaptureSkipped ==
    \A r \in Runs : \A k \in 1..Len(toolpath) :
        MissingFields(toolpath[k]) =>
            /\ \A j \in 1..Len(Calls(r)) : Calls(r)[j].idx # k
            /\ ~(runs[r].pc = "failed" /\ runs[r].i = k)

\* C7: every mode-switch, move and home line the loop has gone past was
\* handed unchanged to send_gcode.
C7_MotionLinesForwarded ==
    \A r \in Runs : \A k \in 1..Len(toolpath) :
        (/\ runs[r].i > k
         /\ IsModeLine(toolpath[k]) \/ IsMoveLine(toolpath[k]) \/ IsHomeLine(toolpath[k]))
            => \E j \in 1..Len(Calls(r)) :
                  Calls(r)[j] = [idx |-> k, line |-> toolpath[k]]

\* C8: when the camera is about to be invoked after the moves of a capture
\* directive, the last move commanded carries the directive's x, y and z.
C8_CaptureMoveReachesXYZ ==
    \A r \in Runs :
        (/\ runs[r].pc = "cap_shoot"
         /\ Len(Calls(r)) > 0
         /\ LastCall(r).idx = runs[r].i)
            => /\ IsMoveLine(LastCall(r).line)
               /\ AxisArg(LastCall(r).line, "X") = N(NumOf(runs[r].cap.x))
               /\ AxisArg(LastCall(r).line, "Y") = N(NumOf(runs[r].cap.y))
               /\ AxisArg(LastCall(r).line, "Z") = N(NumOf(runs[r].cap.z))

\* C9: after the moves of a capture directive, the camera is invoked only
\* when the controller has no motion left to execute.
C9_StationaryDuringCapture ==
    [][\A r \in Runs :
          (/\ runs[r].pc = "cap_shoot"
           /\ runs'[r].shots = runs[r].shots + 1
           /\ Len(Calls(r)) > 0
           /\ LastCall(r).idx = runs[r].i)
              => ~moving]_vars

\* C10: the profile object equals its value before the first generator call.
C10_ProfileUnchanged == prnt = prnt0

\* the last n elements of a sequence, all of it when it is shorter
LastN(q, n) == IF Len(q) <= n THEN q ELSE SubSeq(q, Len(q) - n + 1, Len(q))

C12_EarlyCallChangesNothing ==
    [][(pctl'.now # pctl.now /\ pctl'.now - pctl.ctl.prev_time < sample_time)
          => (/\ pctl'.ret = pctl.rate
              /\ pctl'.ctl = pctl.ctl
              /\ ~pctl'.accepted)]_vars

\* C12 witness: a call was turned away after an earlier tick was accepted
C12_Witness ==
    /\ pctl.calls >= 2
    /\ ~pctl.accepted
    /\ pctl.samples # <<>>
    /\ pctl.ctl.prev_error # 0
    /\ pctl.now - pctl.ctl.prev_time < sample_time
    /\ pctl.now > pctl.ctl.prev_time

\* C13: a tick on which the load cell had no reading returns the rate it was
\* given.
C13_MissingReadingSkipsCorrection == pctl.missing => pctl.ret = pctl.arg

\* C14 as stated: the error of an accepted tick comes from the mean of the
\* samples held, all of them when fewer than five exist, and the history
\* never holds more than five.
C14_ErrorFromMeanOfHeldSamples ==
    /\ Len(pctl.ctl.pressure_history) <= history_length
    /\ pctl.accepted =>
          pctl.error = target_pressure - Mean(LastN(pctl.samples, history_length))

\* C14 amended: the history holds exactly the last five accepted samples
\* (all of them when fewer exist); the error of an accepted tick comes from
\* the mean of the history once it holds three samples, and from the reading
\* itself while it holds one or two.
C14_ErrorFromMeanOnceThreeHeld ==
    /\ Len(pctl.ctl.pressure_history) <= history_length
    /\ pctl.ctl.pressure_history = LastN(pctl.samples, history_length)
    /\ pctl.accepted =>
          pctl.error = target_pressure -
              (IF Len(pctl.samples) >= 3
               THEN Mean(LastN(pctl.samples, history_length))
               ELSE pctl.samples[Len(pctl.samples)])

\* C14 witness: a sixth sample was accepted and pushed out a different first
C14_Witness ==
    /\ pctl.accepted
    /\ Len(pctl.samples) >= 6
    /\ pctl.samples[1] # pctl.samples[Len(pctl.samples)]
    /\ Mean(pctl.ctl.pressure_history) # pctl.samples[Len(pctl.samples)]

\* C15: wait_for_idle returns True only after two consecutive polls that both
\* found the head idle and before the timeout has elapsed, and returns False
\* only once the timeout has elapsed.
C15_IdleNeedsTwoConsecutiveIdlePolls ==
    LET n == Len(kctl.polls) IN
    /\ kctl.wpc = "true" =>
          /\ n >= 2
          /\ kctl.polls[n] = "idle"
          /\ kctl.polls[n - 1] = "idle"
          /\ kctl.clock < kctl.timeout
    /\ kctl.wpc = "false" => kctl.clock >= kctl.timeout

\* C16: connect() returns True exactly when the transport is reachable and
\* the state the printer reports is not shutdown.
C16_ConnectIffReachableAndNotShutdown ==
    kctl.result # "none" =>
        ((kctl.result = "true") <=>
            (/\ kctl.probe.reachable
             /\ test_connection(kctl.probe.reachable, kctl.probe.info_ok,
                                kctl.probe.state).printer_state # "shutdown"))

\* C17: a run leaves the idle state only while the controller is connected.
C17_RunBeginsOnlyWhenConnected ==
    [][\A r \in Runs :
          (runs[r].pc = "idle" /\ runs'[r].pc # "idle") => controller = "up"]_vars

\* C18: a pause directive of the toolpath is never handed to send_gcode.
C18_PauseNotSentAsGcode ==
    \A r \in Runs : \A k \in 1..Len(toolpath) :
        IsPauseLine(toolpath[k]) =>
            \A j \in 1..Len(Calls(r)) : Calls(r)[j].idx # k

\* C19: no instruction that follows a WAIT directive is dispatched; the
\* loops read no operator input, so no acknowledgment is ever received.
C19_NoDispatchPastUnacknowledgedWait ==
    \A r \in Runs : \A k \in 1..Len(toolpath) :
        IsWaitLine(toolpath[k]) =>
            \A j \in 1..Len(Calls(r)) : Calls(r)[j].idx <= k

\* C20: a run never ends in failure, and a run that has finished went
\* through every instruction of the toolpath.
C20_RunGoesThroughWholeToolpath ==
    \A r \in Runs :
        /\ runs[r].pc # "failed"
        /\ runs[r].pc = "done" => runs[r].i > Len(toolpath)

\* C29: the connected flag is set only if the most recent connect() returned
\* True, and after a connect() that returned False send_gcode transmits
\* nothing, whatever the outcome of the request would be.
C29_ConnectedOnlyAfterSuccessfulConnect ==
    /\ kctl.connected => kctl.result = "true"
    /\ kctl.result = "false" =>
          \A ok \in BOOLEAN : ~unit_send_gcode(kctl.connected, ok)

\* C30: wait_for_idle returns True only when its last status query was
\* answered with an idle reading, never after a failed or empty query.
C30_IdleOnlyOnAnsweredIdleReading ==
    kctl.wpc = "true" =>
        /\ kctl.answer = "reading"
        /\ kctl.polls[Len(kctl.polls)] = "idle"

IsPrefix(s, t) == Len(s) <= Len(t) /\ SubSeq(t, 1, Len(s)) = s

\* C22: the list main.generate_toolpath returns still begins with
\* everything that was appended before the first pattern (homing and the
\* three priming strokes), in order
C22_PrimingPrecedesFirstPattern ==
    genName = "main.generate_toolpath" => IsPrefix(main_preamble(prnt), genOut)

\* a directive line as capture_print writes it
GeneratedCapture == capture_print(1, 65, 10, 60, <<W("layer_"), N(0)>>)[3]

\* C24: when a run reaches a capture directive written by capture_print,
\* the engine's parser accepts it and recovers its camera, x, y and z; the
\* directive is never skipped as malformed
C24_GeneratedCaptureAccepted ==
    [][\A r \in Runs :
          (/\ runs[r].pc = "loop"
           /\ runs[r].i <= Len(toolpath)
           /\ toolpath[runs[r].i] = GeneratedCapture
           /\ runs'[r] # runs[r])
          => /\ runs'[r].pc \in {"cap_abs", "cap_shoot"}
             /\ Strip(runs'[r].cap.camera) = <<N(1)>>
             /\ Strip(runs'[r].cap.x) = <<N(65)>>
             /\ Strip(runs'[r].cap.y) = <<N(10)>>
             /\ Strip(runs'[r].cap.z) = <<N(60)>>]_vars

IsExtrudeLine(line) == IsMoveLine(line) /\ Contains(line, "E")

IsLiftLine(line) == IsMoveLine(line) /\ Contains(line, "Z") /\ ~Contains(line, "E")

\* the move to the start of the right comb, as the capacitor generators
\* called with stdCap and xStart = 1000 write it
IsRelocation(line) ==
    /\ IsMoveLine(line)
    /\ Len(line) >= 4
    /\ line[2] = W("X")
    /\ line[3] = N(1000 + stdCap.arm_len + stdCap.gap)
    /\ line[4] = W("Y")

\* C25: in the toolpath of printCap and of printCap_contact_patch a lift
\* move stands between the last extruding stroke of the left comb and the
\* first move to the start of the right comb
C25_LiftBeforeRelocation ==
    genName \in {"printCap", "printCap_contact_patch"} =>
        \E r \in 1..Len(genOut) :
            /\ IsRelocation(genOut[r])
            /\ \A q \in 1..(r - 1) : ~IsRelocation(genOut[q])
            /\ \E e \in 1..(r - 1), j \in 1..(r - 1) :
                  /\ e < j
                  /\ IsExtrudeLine(genOut[e])
                  /\ IsLiftLine(genOut[j])
                  /\ \A k \in (j + 1)..(r - 1) : ~IsExtrudeLine(genOut[k])

RECURSIVE ModeAt(_, _)
\* the mode the lines before position k of a toolpath leave the printer in
ModeAt(tp, k) == IF k <= 1 THEN "abs" ELSE ModeAfter(ModeAt(tp, k - 1), tp[k - 1])

\* a "G1 Z<h> F<speed>" line
IsZOnlyLine(line) == IsMoveLine(line) /\ Len(line) >= 4 /\ line[2] = W("Z") /\ line[4] = W("F")

\* the heights a toolpath sets with absolute Z moves: its layer heights
LayerHeights(tp) ==
    { tp[k][3].n : k \in { j \in 1..Len(tp) : IsZOnlyLine(tp[j]) /\ ModeAt(tp, j) = "abs" } }

\* C26: the layers of a single-line capacitor (called with layer_height
\* 0.5 mm) are printed at print_height, print_height + layer_height,
\* print_height + 2 * layer_height, ...: one layer_height apart
C26_LayersOneLayerHeightApart ==
    genName \in {"singleLineCap", "singleLineCap_left", "singleLineCap_right"} =>
        LayerHeights(genOut) =
            { prnt.print_height + k * 50 :
                  k \in 0..(Cardinality(LayerHeights(genOut)) - 1) }

\* C27: in a toolpath a generator returns, two mode switches with no mode
\* switch between them never select the same mode
C27_NoRepeatedModeSwitch ==
    \A j \in 1..Len(genOut), k \in 1..Len(genOut) :
        (/\ j < k
         /\ IsModeLine(genOut[j])
         /\ IsModeLine(genOut[k])
         /\ \A m \in (j + 1)..(k - 1) : ~IsModeLine(genOut[m]))
        => genOut[j][1] # genOut[k][1]

IsCaptureLine(line) == Contains(line, "CAPTURE")

\* the positions of the capture directives of a toolpath
Captures(tp) == { k \in 1..Len(tp) : IsCaptureLine(tp[k]) }

\* C21: the toolpath of a layered generator holds a capture directive for
\* every layer; between two successive captures (the end of one layer and
\* the end of the next) stand a message directive and then a WAIT; no WAIT
\* follows the last capture
C21_CaptureThenBarrierBetweenLayers ==
    genName \in {"layered_FFT", "printibility.layered_FFT"} =>
        /\ Captures(genOut) # {}
        /\ \A a \in Captures(genOut), b \in Captures(genOut) :
              (a < b /\ \A c \in (a + 1)..(b - 1) : c \notin Captures(genOut))
              => \E m \in (a + 1)..(b - 1), w \in (a + 1)..(b - 1) :
                    /\ m < w
                    /\ genOut[m] = <<W("PRINT_MESSAGE")>>
                    /\ IsWaitLine(genOut[w])
        /\ \A k \in 1..Len(genOut) :
              (\A c \in Captures(genOut) : c < k) => ~IsWaitLine(genOut[k])

\* the lines of a text: the pieces between its "\n", the text after the
\* last "\n" only if there is any
ReadLines(text) ==
    LET nl == { k \in 1..Len(text) : text[k] = NL }
        n == Cardinality(nl)
        pos == [i \in 0..n |->
                   IF i = 0 THEN 0
                   ELSE CHOOSE k \in nl : Cardinality({ j \in nl : j < k }) = i - 1]
        body == [i \in 1..n |-> SubSeq(text, pos[i - 1] + 1, pos[i] - 1)]
        rest == SubSeq(text, pos[n] + 1, Len(text))
    IN IF rest = <<>> THEN body ELSE Append(body, rest)

\* a line that is neither blank nor a comment
IsInstruction(line) == line # <<>> /\ line[1] # SEMI

Instructions(lines) == SelectSeq(lines, IsInstruction)

\* C23: the instructions read back from a saved toolpath file are the
\* instructions of the toolpath that was saved, in the same order
C23_SavedFileReadsBackAsToolpath ==
    saved.by # "none" =>
        Instructions(ReadLines(saved.text)) = Instructions(saved.tp)

----------------------------------------------------------------------------
(* Specification of the timelapse control: the button and the worker       *)
(* threads, interleaved at their reads and writes of the flag              *)

InitTimelapse ==
    /\ engine = "gui"
    /\ toolpath = home
    /\ runs = [r \in Runs |-> IdleRun]
    /\ printer_connected = FALSE
    /\ controller = "none"
    /\ ctrlMode = "abs"
    /\ moving = FALSE
    /\ stopRuns = {}
    /\ prnt = MXeneProfile_pet_25G
    /\ genOut = <<>>
    /\ genName = "none"
    /\ genCalls = 0
    /\ prnt0 = prnt
    /\ saved = NoFile
    /\ pctl = PressureInit
    /\ kctl = KlipperInit("root")
    /\ tl = TimelapseInit

NextTimelapse ==
    \/ \E valid \in BOOLEAN : Tl_toggle_timelapse(valid)
    \/ \E k \in Workers, expired \in BOOLEAN : Tl_check(k, expired)
    \/ \E k \in Workers, success \in BOOLEAN, raised \in BOOLEAN, lastFrame \in BOOLEAN :
          Tl_capture(k, success, raised, lastFrame)
    \/ \E k \in Workers : Tl_wake(k)
    \/ \E k \in Workers : Tl_finish(k)

SpecTimelapse == InitTimelapse /\ [][NextTimelapse]_vars

\* C28: at no time are two timelapse workers capturing: a worker whose
\* timelapse was stopped does not capture alongside the worker of a
\* timelapse started afterwards
C28_AtMostOneWorkerCapturing ==
    Cardinality({ k \in Workers : tl.w[k].pc = "capture" }) <= 1

====
